---------------------------- MODULE Spec2Model ----------------------------
(***************************************************************************)
(* A model of the Rust HID driver adapter (rust/kernel/hid.rs) and of the  *)
(* Nintendo Switch controller driver built on it                           *)
(* (drivers/hid/hid_nintendo.rs).                                          *)
(*                                                                         *)
(* Eight specifications share the module's variables:                      *)
(*   SpecSend   hid_send / hid_send_sync against a scripted transport      *)
(*   Spec       the adapter callbacks and Nintendo::probe/remove/raw_event *)
(*   SpecMask   ConnectionMask::from and ConnectionMask::bitor             *)
(*   SpecTable  HidDeviceId::to_rawid and the sentinel-terminated table    *)
(*   SpecFault  Spec under a host that may pass null references            *)
(*   SpecStray  Spec under a host that delivers reports to unbound devices *)
(*   SpecDevice the Device operations called in any order                  *)
(*   SpecReg    Adapter::register and Adapter::unregister                  *)
(* Each specification moves its own variables and leaves the others at     *)
(* their initial values.                                                   *)
(***************************************************************************)
EXTENDS Integers, Sequences, FiniteSets, TLC

VARIABLES
    \* ---- hid_send_sync (SpecSend) ----
    send_pc,        \* "idle" | "loop" | "returned": position in hid_send_sync
    send_iter,      \* iterations of `for _ in 0..tries` already completed
    send_data,      \* the caller's `data: &[u8]`
    send_result,    \* value hid_send_sync returned (NotReturned while running)
    transport,      \* script: transport[i] is what hid_hw_output_report
                    \* returns on its i-th call of this invocation
    alloc_failed,   \* TRUE once Vec::try_with_capacity failed in this invocation
    out_reports,    \* buffers handed to hid_hw_output_report, in call order,
                    \* since the last hid_send_sync invocation began
    \* ---- build configuration ----
    overflow_checks,\* TRUE: `1 << x` with x >= 32 panics; FALSE: x is masked
    \* ---- adapter callbacks and the Nintendo driver (Spec), per device ----
    dev_state,      \* "absent" | "unbound" | "bound" | "failed" | "removed"
    host,           \* the host's hid_device: parsed, started, mask, opened,
                    \* io_started, lock (driver_input_lock count), warnings
    cb_kind,        \* callback running (or last run): "none" | "probe" |
                    \* "remove" | "raw_event"
    cb_pc,          \* position inside that callback
    handles,        \* number of live kernel::hid::Device handles
    controller,     \* state of the live Box<Controller>, "none" if there is none
    calls,          \* device operations issued by the running callback
    trait_calls,    \* Driver trait methods invoked by the running callback
    drv_ret,        \* Result of the Driver trait method
    cb_status,      \* c_int the callback returned to the host
    ev_data,        \* raw_event's `data: &[u8]`
    \* ---- capability masks (SpecMask) ----
    flag_seq,       \* the ConnectionRequest flags to combine, in order
    flag_perm,      \* a permutation of flag_seq's positions
    mask_left,      \* ((m1 | m2) | m3) ... over flag_seq, Unset until computed
    mask_right,     \* m1 | (m2 | (m3 ...)) over flag_seq
    mask_perm,      \* the left-nested combination of flag_seq permuted
    \* ---- identity tables (SpecTable) ----
    authored,       \* the authored HidDeviceId entries
    id_table,       \* the hid_device_id records built from them
    \* ---- driver registration (SpecReg), per driver type ----
    reg,            \* the hid_driver registration record
    reg_pc,         \* position inside Adapter::register / unregister
    reg_name,       \* register's `name` argument
    reg_result,     \* Result of Adapter::register
    register_calls, \* __hid_register_driver calls: the record as passed
    unregister_calls\* hid_unregister_driver calls: the record passed

sendVars == <<send_pc, send_iter, send_data, send_result, transport,
              alloc_failed, out_reports>>

drvVars == <<dev_state, host, cb_kind, cb_pc, handles, controller, calls,
             trait_calls, drv_ret, cb_status, ev_data>>

maskVars == <<flag_seq, flag_perm, mask_left, mask_right, mask_perm>>

tableVars == <<authored, id_table>>

regVars == <<reg, reg_pc, reg_name, reg_result, register_calls,
             unregister_calls>>

vars == <<sendVars, overflow_checks, regVars, drvVars, maskVars, tableVars>>

--------------------------------------------------------------------------
(* Results and status codes                                                *)

\* kernel::error::Result<T>: Ok(v) or Err(errno); errno kept positive.
Ok == [ok |-> TRUE, val |-> 0]

Err(e) == [ok |-> FALSE, val |-> e]

\* hid_send_sync has not returned yet.
NotReturned == [ok |-> FALSE, val |-> 0]

\* A function body that ends without a value of its return type
\* (the `for` loop of hid_send_sync evaluates to `()`).
NoValue == [ok |-> FALSE, val |-> -1]

\* Negative errnos the host's device operations report in the model
\* (-EIO, -ENODEV) and a success status.
HostErrnos == {-5, -19}

HostRets == {0} \cup HostErrnos

\* kernel::error::to_result: a negative status is an error, anything else Ok.
to_result(ret) == IF ret < 0 THEN Err(0 - ret) ELSE Ok

\* `?` on Vec::try_with_capacity / Box::try_new: AllocError becomes ENOMEM.
AllocError == Err(12)

--------------------------------------------------------------------------
(* hid_send and hid_send_sync                                              *)

\* let tries = 2;
tries == 2

\* Longest report payload of the model.
MaxLen == 2

Bytes == {0, 255}

Payloads == UNION {[1..n -> Bytes] : n \in 0..MaxLen}

\* Device::hw_output_report: one hid_hw_output_report call with the buffer
\* and its length; the host's status goes through to_result.
hw_output_report(buf, ret) == to_result(ret)

\* The number of hid_hw_output_report calls made so far by this invocation.
attempts == Len(out_reports)

\* A copy buffer that was allocated and never filled.
clone_into_leaving_empty(data) == <<>>

\* data.clone_into(&mut copied_data): the buffer gets data's bytes, one by
\* one, and data's length.
clone_into(data) == [i \in 1..Len(data) |-> data[i]]

\* hid_send: allocate a copy (may fail), copy the data, send the copy once.
\* `alloc_ok` is the allocator's answer.  Yields the Result and the log of
\* buffers the host has received.
hid_send(data, alloc_ok) ==
    IF ~alloc_ok
    THEN [res |-> AllocError, reports |-> out_reports]
    ELSE LET copied_data == clone_into(data)
         IN  [res     |-> hw_output_report(copied_data, transport[attempts + 1]),
              reports |-> Append(out_reports, copied_data)]

\* A caller invokes hid_send_sync(dev, data, timeout); the transport's
\* behaviour for this invocation is fixed by the script.
SendSyncCall(data, script) ==
    /\ send_pc = "idle"
    /\ send_pc' = "loop"
    /\ send_iter' = 0
    /\ send_data' = data
    /\ send_result' = NotReturned
    /\ transport' = script
    /\ alloc_failed' = FALSE
    /\ out_reports' = <<>>
    /\ UNCHANGED <<overflow_checks, regVars, drvVars, maskVars, tableVars>>

\* One iteration of `for _ in 0..tries { hid_send(dev, data)?; }`:
\* an error returns eagerly, a success goes on to the next iteration.
SendSyncIteration(alloc_ok) ==
    /\ send_pc = "loop"
    /\ send_iter < tries
    /\ LET r == hid_send(send_data, alloc_ok)
       IN  /\ out_reports' = r.reports
           /\ alloc_failed' = (alloc_failed \/ ~alloc_ok)
           /\ IF r.res.ok
              THEN /\ send_iter' = send_iter + 1
                   /\ send_pc' = "loop"
                   /\ send_result' = send_result
              ELSE /\ send_iter' = send_iter
                   /\ send_pc' = "returned"
                   /\ send_result' = r.res
    /\ UNCHANGED <<send_data, transport, overflow_checks, regVars, drvVars, maskVars,
                   tableVars>>

\* The loop is exhausted: the body ends after the `for`, with no value.
SendSyncLoopEnd ==
    /\ send_pc = "loop"
    /\ send_iter = tries
    /\ send_pc' = "returned"
    /\ send_result' = NoValue
    /\ UNCHANGED <<send_iter, send_data, transport, alloc_failed, out_reports,
                   overflow_checks, regVars, drvVars, maskVars,
                   tableVars>>

\* The caller has taken the result; the helper may be invoked again.
SendSyncDone ==
    /\ send_pc = "returned"
    /\ send_pc' = "idle"
    /\ UNCHANGED <<send_iter, send_data, send_result, transport, alloc_failed,
                   out_reports, overflow_checks, regVars, drvVars, maskVars,
                   tableVars>>

Scripts == [1..tries -> HostRets]

--------------------------------------------------------------------------
(* ConnectionRequest and ConnectionMask                                    *)

\* enum ConnectionRequest, with its discriminants.
ConnectionRequest ==
    [HidInput |-> 0, HidInputForce |-> 1, HidRaw |-> 2, HidDev |-> 3,
     HidDevForce |-> 4, FF |-> 5, Driver |-> 6]

Flags == {ConnectionRequest[n] : n \in DOMAIN ConnectionRequest}

\* A ConnectionMask value, or the panic of the expression computing it.
Mask(n) == [panic |-> FALSE, bits |-> n]

Panic == [panic |-> TRUE, bits |-> 0]

\* const fn bit(x: c_uint) -> c_uint { 1 << x }.  c_uint has 32 bits: a
\* shift amount of 32 or more panics in a build with overflow checks and is
\* reduced modulo 32 in a build without them.
bit(x) ==
    IF x < 32 THEN Mask(2 ^ x)
    ELSE IF overflow_checks THEN Panic
    ELSE Mask(2 ^ (x % 32))

\* impl From<ConnectionRequest> for ConnectionMask.
ConnectionMaskFrom(req) == bit(req)

\* The bitwise OR of two c_uint values.
RECURSIVE BitOrNat(_, _)
BitOrNat(a, b) ==
    IF a = 0 THEN b
    ELSE IF b = 0 THEN a
    ELSE (IF a % 2 = 1 \/ b % 2 = 1 THEN 1 ELSE 0)
         + 2 * BitOrNat(a \div 2, b \div 2)

\* Bit i of the c_uint n is set.
RECURSIVE BitSet(_, _)
BitSet(n, i) == IF i = 0 THEN n % 2 = 1 ELSE BitSet(n \div 2, i - 1)

\* impl BitOr for ConnectionMask:
\*     ConnectionMask(bit(self.0) | bit(rhs.0))
\* A panic in an operand or in either shift is the panic of the expression.
bitor(self, rhs) ==
    IF self.panic \/ rhs.panic THEN Panic
    ELSE LET l == bit(self.bits)
             r == bit(rhs.bits)
         IN  IF l.panic \/ r.panic THEN Panic
             ELSE Mask(BitOrNat(l.bits, r.bits))

\* `m1 | m2 | ... | mn` as Rust groups it, ((m1 | m2) | ...) | mn, each mi
\* being fs[i].into().
RECURSIVE compose_left(_)
compose_left(fs) ==
    IF Len(fs) = 1 THEN ConnectionMaskFrom(fs[1])
    ELSE bitor(compose_left(SubSeq(fs, 1, Len(fs) - 1)),
               ConnectionMaskFrom(fs[Len(fs)]))

\* The same masks grouped the other way, m1 | (m2 | (... | mn)).
RECURSIVE compose_right(_)
compose_right(fs) ==
    IF Len(fs) = 1 THEN ConnectionMaskFrom(fs[1])
    ELSE bitor(ConnectionMaskFrom(fs[1]), compose_right(Tail(fs)))

\* No mask has been computed.
Unset == [panic |-> FALSE, bits |-> -1]

\* Most flags combined in one expression.
MaxFlags == 3

FlagSeqs == UNION {[1..n -> Flags] : n \in 1..MaxFlags}

\* The permutations of 1..n.
Perms(n) == {p \in [1..n -> 1..n] : \A i, j \in 1..n : p[i] = p[j] => i = j}

\* fs with its positions permuted by p.
Permuted(fs, p) == [i \in 1..Len(fs) |-> fs[p[i]]]

ComposeLeft ==
    /\ flag_seq # <<>>
    /\ mask_left = Unset
    /\ mask_left' = compose_left(flag_seq)
    /\ UNCHANGED <<flag_seq, flag_perm, mask_right, mask_perm>>
    /\ UNCHANGED <<sendVars, overflow_checks, regVars, drvVars, tableVars>>

ComposeRight ==
    /\ flag_seq # <<>>
    /\ mask_right = Unset
    /\ mask_right' = compose_right(flag_seq)
    /\ UNCHANGED <<flag_seq, flag_perm, mask_left, mask_perm>>
    /\ UNCHANGED <<sendVars, overflow_checks, regVars, drvVars, tableVars>>

ComposePermuted ==
    /\ flag_seq # <<>>
    /\ mask_perm = Unset
    /\ mask_perm' = compose_left(Permuted(flag_seq, flag_perm))
    /\ UNCHANGED <<flag_seq, flag_perm, mask_left, mask_right>>
    /\ UNCHANGED <<sendVars, overflow_checks, regVars, drvVars, tableVars>>

--------------------------------------------------------------------------
(* DeviceKind, HidDeviceId and the identity table                          *)

DeviceKind == {"Bluetooth", "USB"}

\* bindings::BUS_BLUETOOTH and bindings::BUS_USB (linux/input.h), the
\* values the enum DeviceKind repeats as its discriminants.
BUS_BLUETOOTH == 5

BUS_USB == 3

\* DeviceKind::bus_id: the bus constant of the kind, cast to u16.
bus_id(kind) == (IF kind = "Bluetooth" THEN BUS_BLUETOOTH ELSE BUS_USB) % 65536

\* HidDeviceId::ZERO, the record that ends a table.
ZERO == [bus |-> 0, group |-> 0, vendor |-> 0, product |-> 0, driver_data |-> 0]

\* to_rawid leaving every field but vendor and product as in ZERO.
to_rawid_without_bus(id) ==
    [ZERO EXCEPT !.vendor = id.vendor % 65536, !.product = id.product % 65536]

\* HidDeviceId::to_rawid: bus from the kind, vendor and product widened
\* from u16 to u32, the other fields as in ZERO.
to_rawid(id) ==
    [ZERO EXCEPT !.bus = bus_id(id.kind),
                 !.vendor = id.vendor % 65536,
                 !.product = id.product % 65536]

HidDeviceId(kind, vendor, product) ==
    [kind |-> kind, vendor |-> vendor, product |-> product]

\* The entries Nintendo::ID_TABLE is written from
\* (vendor 0x057e; products 0x2009, 0x2009, 0x200e, 0x2006, 0x2007).
NintendoIds ==
    <<HidDeviceId("USB", 1406, 8201),
      HidDeviceId("Bluetooth", 1406, 8201),
      HidDeviceId("USB", 1406, 8206),
      HidDeviceId("Bluetooth", 1406, 8198),
      HidDeviceId("Bluetooth", 1406, 8199)>>

\* Nintendo::ID_TABLE as the source writes it.
ID_TABLE ==
    <<to_rawid(NintendoIds[1]),
      to_rawid(NintendoIds[2]),
      to_rawid(NintendoIds[3]),
      to_rawid(NintendoIds[4]),
      to_rawid(NintendoIds[5]),
      ZERO>>

\* A table written the way ID_TABLE is, from any list of entries: each
\* entry's to_rawid() in order, then HidDeviceId::ZERO.
TableOf(entries) ==
    Append([i \in 1..Len(entries) |-> to_rawid(entries[i])], ZERO)

\* Most entries of an authored table in the model.
MaxEntries == 2

\* Vendor and product ids of the model: the ends of the u16 range and the
\* ids of the driver.
IdValues == {0, 1406, 8201, 65535}

\* One more entry is authored and the table written out again.
AuthorEntry(kind, vendor, product) ==
    /\ Len(authored) < MaxEntries
    /\ authored' = Append(authored, HidDeviceId(kind, vendor, product))
    /\ id_table' = TableOf(authored')
    /\ UNCHANGED <<sendVars, overflow_checks, regVars, drvVars, maskVars>>

\* The driver's own table.
UseDriverTable ==
    /\ authored # NintendoIds
    /\ authored' = NintendoIds
    /\ id_table' = ID_TABLE
    /\ UNCHANGED <<sendVars, overflow_checks, regVars, drvVars, maskVars>>

--------------------------------------------------------------------------
(* kernel::hid::Device operations on the host's hid_device                 *)

Devices == {"dev0", "dev1"}

\* The hid_device of a newly attached device instance.
FreshDevice ==
    [parsed |-> FALSE, started |-> FALSE, mask |-> 0, opened |-> FALSE,
     io_started |-> FALSE, lock |-> 0, warnings |-> 0]

\* Device::parse: hid_open_report; `ret` is the host's status.
parse(h, ret) ==
    [res |-> to_result(ret),
     host |-> IF ret < 0 THEN h ELSE [h EXCEPT !.parsed = TRUE]]

\* Device::hw_start: hid_hw_start with the mask's bits.
hw_start(h, connect_mask, ret) ==
    [res |-> to_result(ret),
     host |-> IF ret < 0 THEN h
              ELSE [h EXCEPT !.started = TRUE, !.mask = connect_mask.bits]]

\* Device::hw_open: hid_hw_open.
hw_open(h, ret) ==
    [res |-> to_result(ret),
     host |-> IF ret < 0 THEN h ELSE [h EXCEPT !.opened = TRUE]]

\* Device::io_start: warn if I/O was already started, then set the flag and
\* release driver_input_lock in either case.
io_start(h) ==
    [h EXCEPT !.warnings = IF h.io_started THEN @ + 1 ELSE @,
              !.io_started = TRUE,
              !.lock = @ + 1]

\* One entry of the log of device operations.
Call(op, arg, res) == [op |-> op, arg |-> arg, res |-> res]

--------------------------------------------------------------------------
(* The host: device instances come and go                                  *)

\* No adapter callback is running for d.
CallbackIdle(d) == cb_pc[d] \in {"idle", "returned"}

\* A device instance matching the identity table is attached.
HostAttach(d) ==
    /\ dev_state[d] = "absent"
    /\ CallbackIdle(d)
    /\ dev_state' = [dev_state EXCEPT ![d] = "unbound"]
    /\ host' = [host EXCEPT ![d] = FreshDevice]
    /\ UNCHANGED <<cb_kind, cb_pc, handles, controller, calls, trait_calls,
                   drv_ret, cb_status, ev_data>>
    /\ UNCHANGED <<sendVars, overflow_checks, regVars, maskVars, tableVars>>

\* The instance is gone: after its remove callback, or after a failed probe.
HostDetach(d) ==
    /\ dev_state[d] \in {"failed", "removed"}
    /\ CallbackIdle(d)
    /\ dev_state' = [dev_state EXCEPT ![d] = "absent"]
    /\ UNCHANGED <<host, cb_kind, cb_pc, handles, controller, calls,
                   trait_calls, drv_ret, cb_status, ev_data>>
    /\ UNCHANGED <<sendVars, overflow_checks, regVars, maskVars, tableVars>>

\* What every callback does on entry: `let mut dev = Device::from_ptr(hid)`.
EnterCallback(d, kind, data) ==
    /\ CallbackIdle(d)
    /\ cb_kind' = [cb_kind EXCEPT ![d] = kind]
    /\ cb_pc' = [cb_pc EXCEPT ![d] = "entry"]
    /\ handles' = [handles EXCEPT ![d] = @ + 1]
    /\ calls' = [calls EXCEPT ![d] = <<>>]
    /\ trait_calls' = [trait_calls EXCEPT ![d] = 0]
    /\ drv_ret' = [drv_ret EXCEPT ![d] = NotReturned]
    /\ cb_status' = [cb_status EXCEPT ![d] = 0]
    /\ ev_data' = [ev_data EXCEPT ![d] = data]

--------------------------------------------------------------------------
(* Adapter::probe_callback and Nintendo::probe                             *)

\* kernel::error::from_kernel_result!: Ok(v) becomes v, Err(e) becomes -e.
from_kernel_result(r) == IF r.ok THEN r.val ELSE 0 - r.val

\* The host calls probe_callback(hid, raw_id) for an unbound device, with
\* the valid references its contract promises.
ProbeCallbackEnter(d) ==
    /\ dev_state[d] = "unbound"
    /\ EnterCallback(d, "probe", <<>>)
    /\ UNCHANGED <<dev_state, host, controller>>
    /\ UNCHANGED <<sendVars, overflow_checks, regVars, maskVars, tableVars>>

\* Try with the `?` left out: the error is ignored and probe goes on.
TryIgnoringError(res, next_pc) == next_pc

\* The position after a `?`: go on if the Result is Ok, else leave probe.
Try(res, next_pc) == IF res.ok THEN next_pc ELSE "trait_done"

\* Leaving Nintendo::probe drops its local `state: Box<Controller>`.
DropOnLeave(d, pc) == IF pc = "trait_done" THEN "none" ELSE controller[d]

\* Nintendo::probe begins: dev.name(), then Box::try_new(Controller{Init})?.
ProbeTryNew(d, alloc_ok) ==
    /\ cb_kind[d] = "probe"
    /\ cb_pc[d] = "entry"
    /\ trait_calls' = [trait_calls EXCEPT ![d] = @ + 1]
    /\ LET res == IF alloc_ok THEN Ok ELSE AllocError
       IN  /\ cb_pc' = [cb_pc EXCEPT ![d] = Try(res, "parse")]
           /\ controller' = [controller EXCEPT
                                ![d] = IF res.ok THEN "Init" ELSE "none"]
           /\ drv_ret' = [drv_ret EXCEPT ![d] = IF res.ok THEN @ ELSE res]
    /\ UNCHANGED <<dev_state, host, cb_kind, handles, calls, cb_status, ev_data>>
    /\ UNCHANGED <<sendVars, overflow_checks, regVars, maskVars, tableVars>>

\* dev.parse()?;
ProbeParse(d, ret) ==
    /\ cb_kind[d] = "probe"
    /\ cb_pc[d] = "parse"
    /\ LET r  == parse(host[d], ret)
           pc == Try(r.res, "hw_start")
       IN  /\ host' = [host EXCEPT ![d] = r.host]
           /\ calls' = [calls EXCEPT ![d] = Append(@, Call("parse", 0, r.res))]
           /\ cb_pc' = [cb_pc EXCEPT ![d] = pc]
           /\ controller' = [controller EXCEPT ![d] = DropOnLeave(d, pc)]
           /\ drv_ret' = [drv_ret EXCEPT ![d] = IF r.res.ok THEN @ ELSE r.res]
    /\ UNCHANGED <<dev_state, cb_kind, handles, trait_calls, cb_status, ev_data>>
    /\ UNCHANGED <<sendVars, overflow_checks, regVars, maskVars, tableVars>>

\* ProbeConnectMask asking for the input layer instead of raw HID.
ProbeConnectMaskHidInput == ConnectionMaskFrom(ConnectionRequest.HidInput)

\* The mask Nintendo::probe requests: ConnectionRequest::HidRaw.into().
ProbeConnectMask == ConnectionMaskFrom(ConnectionRequest.HidRaw)

\* dev.hw_start(ConnectionRequest::HidRaw.into())?;
ProbeHwStart(d, ret) ==
    /\ cb_kind[d] = "probe"
    /\ cb_pc[d] = "hw_start"
    /\ LET m  == ProbeConnectMask
           r  == hw_start(host[d], m, ret)
           pc == Try(r.res, "hw_open")
       IN  /\ host' = [host EXCEPT ![d] = r.host]
           /\ calls' = [calls EXCEPT
                           ![d] = Append(@, Call("hw_start", m.bits, r.res))]
           /\ cb_pc' = [cb_pc EXCEPT ![d] = pc]
           /\ controller' = [controller EXCEPT ![d] = DropOnLeave(d, pc)]
           /\ drv_ret' = [drv_ret EXCEPT ![d] = IF r.res.ok THEN @ ELSE r.res]
    /\ UNCHANGED <<dev_state, cb_kind, handles, trait_calls, cb_status, ev_data>>
    /\ UNCHANGED <<sendVars, overflow_checks, regVars, maskVars, tableVars>>

\* dev.hw_open()?;
ProbeHwOpen(d, ret) ==
    /\ cb_kind[d] = "probe"
    /\ cb_pc[d] = "hw_open"
    /\ LET r  == hw_open(host[d], ret)
           pc == Try(r.res, "io_start")
       IN  /\ host' = [host EXCEPT ![d] = r.host]
           /\ calls' = [calls EXCEPT ![d] = Append(@, Call("hw_open", 0, r.res))]
           /\ cb_pc' = [cb_pc EXCEPT ![d] = pc]
           /\ controller' = [controller EXCEPT ![d] = DropOnLeave(d, pc)]
           /\ drv_ret' = [drv_ret EXCEPT ![d] = IF r.res.ok THEN @ ELSE r.res]
    /\ UNCHANGED <<dev_state, cb_kind, handles, trait_calls, cb_status, ev_data>>
    /\ UNCHANGED <<sendVars, overflow_checks, regVars, maskVars, tableVars>>

\* dev.io_start(); then the handshake that is only a comment; Ok(()).
ProbeIoStart(d) ==
    /\ cb_kind[d] = "probe"
    /\ cb_pc[d] = "io_start"
    /\ host' = [host EXCEPT ![d] = io_start(@)]
    /\ calls' = [calls EXCEPT ![d] = Append(@, Call("io_start", 0, Ok))]
    /\ cb_pc' = [cb_pc EXCEPT ![d] = "trait_done"]
    /\ controller' = [controller EXCEPT ![d] = "none"]
    /\ drv_ret' = [drv_ret EXCEPT ![d] = Ok]
    /\ UNCHANGED <<dev_state, cb_kind, handles, trait_calls, cb_status, ev_data>>
    /\ UNCHANGED <<sendVars, overflow_checks, regVars, maskVars, tableVars>>

\* probe_callback_result with the `?` left out: Ok(0) whatever probe returned.
probe_callback_result_dropping_error(res) == Ok

\* A callback that stores its Device instead of letting it go.
DropHandleKeepingDevice(d) == handles

\* The callback's `dev` goes out of scope when the callback returns; nothing
\* else holds a Device.
DropHandle(d) == [handles EXCEPT ![d] = @ - 1]

\* The closure of probe_callback: `T::probe(&mut dev, id)?; Ok(0)`.
probe_callback_result(res) == IF res.ok THEN Ok ELSE res

\* probe_callback returns its status; `dev` goes out of scope.  The host
\* binds the driver on 0 and gives the device up on a failure.
ProbeCallbackReturn(d) ==
    /\ cb_kind[d] = "probe"
    /\ cb_pc[d] = "trait_done"
    /\ LET status == from_kernel_result(probe_callback_result(drv_ret[d]))
       IN  /\ cb_status' = [cb_status EXCEPT ![d] = status]
           /\ dev_state' = [dev_state EXCEPT
                               ![d] = IF status = 0 THEN "bound" ELSE "failed"]
    /\ cb_pc' = [cb_pc EXCEPT ![d] = "returned"]
    /\ handles' = DropHandle(d)
    /\ UNCHANGED <<host, cb_kind, controller, calls, trait_calls, drv_ret, ev_data>>
    /\ UNCHANGED <<sendVars, overflow_checks, regVars, maskVars, tableVars>>

--------------------------------------------------------------------------
(* Adapter::remove_callback and Nintendo::remove                           *)

\* The host calls remove_callback(hid) for a bound device.
RemoveCallbackEnter(d) ==
    /\ dev_state[d] = "bound"
    /\ EnterCallback(d, "remove", <<>>)
    /\ UNCHANGED <<dev_state, host, controller>>
    /\ UNCHANGED <<sendVars, overflow_checks, regVars, maskVars, tableVars>>

\* Nintendo::remove: dev.name() and a log line.
Remove(d) ==
    /\ cb_kind[d] = "remove"
    /\ cb_pc[d] = "entry"
    /\ trait_calls' = [trait_calls EXCEPT ![d] = @ + 1]
    /\ cb_pc' = [cb_pc EXCEPT ![d] = "trait_done"]
    /\ UNCHANGED <<dev_state, host, cb_kind, handles, controller, calls,
                   drv_ret, cb_status, ev_data>>
    /\ UNCHANGED <<sendVars, overflow_checks, regVars, maskVars, tableVars>>

\* remove_callback returns nothing; `dev` goes out of scope.
RemoveCallbackReturn(d) ==
    /\ cb_kind[d] = "remove"
    /\ cb_pc[d] = "trait_done"
    /\ cb_pc' = [cb_pc EXCEPT ![d] = "returned"]
    /\ handles' = DropHandle(d)
    /\ dev_state' = [dev_state EXCEPT ![d] = "removed"]
    /\ UNCHANGED <<host, cb_kind, controller, calls, trait_calls, drv_ret,
                   cb_status, ev_data>>
    /\ UNCHANGED <<sendVars, overflow_checks, regVars, maskVars, tableVars>>

--------------------------------------------------------------------------
(* Adapter::raw_event_callback and Nintendo::raw_event                     *)

\* The host calls raw_event_callback(hid, hid_report, raw_data, size) for a
\* bound device; `data` is from_raw_parts(raw_data, size).
RawEventCallbackEnter(d, data) ==
    /\ dev_state[d] = "bound"
    /\ EnterCallback(d, "raw_event", data)
    /\ UNCHANGED <<dev_state, host, controller>>
    /\ UNCHANGED <<sendVars, overflow_checks, regVars, maskVars, tableVars>>

\* A raw_event that refuses an empty report.
raw_event_rejecting_empty(data) == IF Len(data) = 0 THEN Err(22) ELSE Ok

\* What Nintendo::raw_event returns: Ok(()) for every report.
raw_event(data) == Ok

\* Nintendo::raw_event: dev.name(), data.len(), a log line, Ok(()).
RawEvent(d) ==
    /\ cb_kind[d] = "raw_event"
    /\ cb_pc[d] = "entry"
    /\ trait_calls' = [trait_calls EXCEPT ![d] = @ + 1]
    /\ drv_ret' = [drv_ret EXCEPT ![d] = raw_event(ev_data[d])]
    /\ cb_pc' = [cb_pc EXCEPT ![d] = "trait_done"]
    /\ UNCHANGED <<dev_state, host, cb_kind, handles, controller, calls,
                   cb_status, ev_data>>
    /\ UNCHANGED <<sendVars, overflow_checks, regVars, maskVars, tableVars>>

\* The closure of raw_event_callback:
\* `T::raw_event(&mut dev, hid_report, data)?; Ok(0)`.
raw_event_callback_result(res) == IF res.ok THEN Ok ELSE res

\* raw_event_callback returns its status; `dev` goes out of scope.
RawEventCallbackReturn(d) ==
    /\ cb_kind[d] = "raw_event"
    /\ cb_pc[d] = "trait_done"
    /\ cb_status' = [cb_status EXCEPT
           ![d] = from_kernel_result(raw_event_callback_result(drv_ret[d]))]
    /\ cb_pc' = [cb_pc EXCEPT ![d] = "returned"]
    /\ handles' = DropHandle(d)
    /\ UNCHANGED <<dev_state, host, cb_kind, controller, calls, trait_calls,
                   drv_ret, ev_data>>
    /\ UNCHANGED <<sendVars, overflow_checks, regVars, maskVars, tableVars>>

--------------------------------------------------------------------------
(* A host that breaks the callback contract                                *)

\* probe_callback(hid, raw_id) with raw_id null: `dev` is constructed, then
\* `raw_id.as_ref().unwrap()` panics.  The callback never returns.
ProbeCallbackNullId(d) ==
    /\ dev_state[d] = "unbound"
    /\ CallbackIdle(d)
    /\ cb_kind' = [cb_kind EXCEPT ![d] = "probe"]
    /\ cb_pc' = [cb_pc EXCEPT ![d] = "panicked"]
    /\ handles' = [handles EXCEPT ![d] = @ + 1]
    /\ calls' = [calls EXCEPT ![d] = <<>>]
    /\ trait_calls' = [trait_calls EXCEPT ![d] = 0]
    /\ drv_ret' = [drv_ret EXCEPT ![d] = NotReturned]
    /\ cb_status' = [cb_status EXCEPT ![d] = 0]
    /\ ev_data' = [ev_data EXCEPT ![d] = <<>>]
    /\ UNCHANGED <<dev_state, host, controller>>
    /\ UNCHANGED <<sendVars, overflow_checks, regVars, maskVars, tableVars>>

\* raw_event_callback(hid, hid_report, raw_data, size) with hid_report null:
\* `dev` and `data` are built, then `hid_report.as_ref().unwrap()` panics.
RawEventCallbackNullReport(d, data) ==
    /\ dev_state[d] = "bound"
    /\ CallbackIdle(d)
    /\ cb_kind' = [cb_kind EXCEPT ![d] = "raw_event"]
    /\ cb_pc' = [cb_pc EXCEPT ![d] = "panicked"]
    /\ handles' = [handles EXCEPT ![d] = @ + 1]
    /\ calls' = [calls EXCEPT ![d] = <<>>]
    /\ trait_calls' = [trait_calls EXCEPT ![d] = 0]
    /\ drv_ret' = [drv_ret EXCEPT ![d] = NotReturned]
    /\ cb_status' = [cb_status EXCEPT ![d] = 0]
    /\ ev_data' = [ev_data EXCEPT ![d] = data]
    /\ UNCHANGED <<dev_state, host, controller>>
    /\ UNCHANGED <<sendVars, overflow_checks, regVars, maskVars, tableVars>>

\* raw_event_callback for a device whose probe has not run or has failed:
\* the callback does not look at the device's binding.
StrayRawEventCallbackEnter(d, data) ==
    /\ dev_state[d] \in {"unbound", "failed"}
    /\ EnterCallback(d, "raw_event", data)
    /\ UNCHANGED <<dev_state, host, controller>>
    /\ UNCHANGED <<sendVars, overflow_checks, regVars, maskVars, tableVars>>

--------------------------------------------------------------------------
(* The Device operations under an arbitrary driver                         *)

\* Most `up` calls on one driver_input_lock that are explored.
MaxIoStarts == 3

\* A driver calls dev.parse().
DeviceParse(d, ret) ==
    /\ host' = [host EXCEPT ![d] = parse(@, ret).host]
    /\ UNCHANGED <<dev_state, cb_kind, cb_pc, handles, controller, calls,
                   trait_calls, drv_ret, cb_status, ev_data>>
    /\ UNCHANGED <<sendVars, overflow_checks, regVars, maskVars, tableVars>>

\* A driver calls dev.hw_start(flag.into()).
DeviceHwStart(d, flag, ret) ==
    /\ host' = [host EXCEPT ![d] = hw_start(@, ConnectionMaskFrom(flag), ret).host]
    /\ UNCHANGED <<dev_state, cb_kind, cb_pc, handles, controller, calls,
                   trait_calls, drv_ret, cb_status, ev_data>>
    /\ UNCHANGED <<sendVars, overflow_checks, regVars, maskVars, tableVars>>

\* A driver calls dev.hw_open().
DeviceHwOpen(d, ret) ==
    /\ host' = [host EXCEPT ![d] = hw_open(@, ret).host]
    /\ UNCHANGED <<dev_state, cb_kind, cb_pc, handles, controller, calls,
                   trait_calls, drv_ret, cb_status, ev_data>>
    /\ UNCHANGED <<sendVars, overflow_checks, regVars, maskVars, tableVars>>

\* A driver calls dev.io_start(), for the first time or again.
DeviceIoStart(d) ==
    /\ host[d].lock < MaxIoStarts
    /\ host' = [host EXCEPT ![d] = io_start(@)]
    /\ UNCHANGED <<dev_state, cb_kind, cb_pc, handles, controller, calls,
                   trait_calls, drv_ret, cb_status, ev_data>>
    /\ UNCHANGED <<sendVars, overflow_checks, regVars, maskVars, tableVars>>

--------------------------------------------------------------------------
(* Adapter::register and Adapter::unregister                               *)

\* Driver types T the adapter is instantiated for; each has one hid_driver
\* registration record, named after its type.
Drivers == {"Nintendo", "Other"}

\* Values of register's `name` argument.
Names == {"nintendo", "other"}

\* A hid_driver record that register has not written yet: no name, null
\* pointers (the empty tuple).
NullRecord ==
    [name |-> "null", probe |-> <<>>, remove |-> <<>>,
     raw_event |-> <<>>, id_table |-> <<>>]

\* Adapter::<T>::probe_callback, remove_callback, raw_event_callback.
Trampoline(t, f) == <<"Adapter", t, f>>

\* T::ID_TABLE.as_ptr().
IdTablePtr(t) == <<t, "ID_TABLE">>

\* register(reg, name, module) is called for a record not registered before.
RegisterEnter(t, name) ==
    /\ reg_pc[t] = "new"
    /\ reg_name' = [reg_name EXCEPT ![t] = name]
    /\ reg_pc' = [reg_pc EXCEPT ![t] = "name"]
    /\ UNCHANGED <<reg, reg_result, register_calls, unregister_calls>>
    /\ UNCHANGED <<sendVars, overflow_checks, drvVars, maskVars, tableVars>>

\* hid.name = name.as_char_ptr()
RegisterWriteName(t) ==
    /\ reg_pc[t] = "name"
    /\ reg' = [reg EXCEPT ![t].name = reg_name[t]]
    /\ reg_pc' = [reg_pc EXCEPT ![t] = "probe"]
    /\ UNCHANGED <<reg_name, reg_result, register_calls, unregister_calls>>
    /\ UNCHANGED <<sendVars, overflow_checks, drvVars, maskVars, tableVars>>

\* hid.probe = Some(Self::probe_callback)
RegisterWriteProbe(t) ==
    /\ reg_pc[t] = "probe"
    /\ reg' = [reg EXCEPT ![t].probe = Trampoline(t, "probe_callback")]
    /\ reg_pc' = [reg_pc EXCEPT ![t] = "remove"]
    /\ UNCHANGED <<reg_name, reg_result, register_calls, unregister_calls>>
    /\ UNCHANGED <<sendVars, overflow_checks, drvVars, maskVars, tableVars>>

\* hid.remove = Some(Self::remove_callback)
RegisterWriteRemove(t) ==
    /\ reg_pc[t] = "remove"
    /\ reg' = [reg EXCEPT ![t].remove = Trampoline(t, "remove_callback")]
    /\ reg_pc' = [reg_pc EXCEPT ![t] = "raw_event"]
    /\ UNCHANGED <<reg_name, reg_result, register_calls, unregister_calls>>
    /\ UNCHANGED <<sendVars, overflow_checks, drvVars, maskVars, tableVars>>

\* register with `hid.raw_event = ...` left out.
RegisterSkipRawEvent(t) ==
    /\ reg_pc[t] = "raw_event"
    /\ reg_pc' = [reg_pc EXCEPT ![t] = "id_table"]
    /\ UNCHANGED <<reg, reg_name, reg_result, register_calls, unregister_calls>>
    /\ UNCHANGED <<sendVars, overflow_checks, drvVars, maskVars, tableVars>>

\* hid.raw_event = Some(Self::raw_event_callback)
RegisterWriteRawEvent(t) ==
    /\ reg_pc[t] = "raw_event"
    /\ reg' = [reg EXCEPT ![t].raw_event = Trampoline(t, "raw_event_callback")]
    /\ reg_pc' = [reg_pc EXCEPT ![t] = "id_table"]
    /\ UNCHANGED <<reg_name, reg_result, register_calls, unregister_calls>>
    /\ UNCHANGED <<sendVars, overflow_checks, drvVars, maskVars, tableVars>>

\* hid.id_table = T::ID_TABLE.as_ptr()
RegisterWriteIdTable(t) ==
    /\ reg_pc[t] = "id_table"
    /\ reg' = [reg EXCEPT ![t].id_table = IdTablePtr(t)]
    /\ reg_pc' = [reg_pc EXCEPT ![t] = "call"]
    /\ UNCHANGED <<reg_name, reg_result, register_calls, unregister_calls>>
    /\ UNCHANGED <<sendVars, overflow_checks, drvVars, maskVars, tableVars>>

\* to_result(__hid_register_driver(reg, module.0, name.as_char_ptr())): the
\* host is called with the record as it stands and answers `ret`.
RegisterCallHost(t, ret) ==
    /\ reg_pc[t] = "call"
    /\ register_calls' = [register_calls EXCEPT ![t] =
           Append(@, [reg |-> t, record |-> reg[t], name |-> reg_name[t],
                      ret |-> ret])]
    /\ reg_result' = [reg_result EXCEPT ![t] = to_result(ret)]
    /\ reg_pc' = [reg_pc EXCEPT ![t] = "returned"]
    /\ UNCHANGED <<reg, reg_name, unregister_calls>>
    /\ UNCHANGED <<sendVars, overflow_checks, drvVars, maskVars, tableVars>>

\* unregister(reg) after a successful register: hid_unregister_driver(reg).
Unregister(t) ==
    /\ reg_pc[t] = "returned"
    /\ reg_result[t].ok
    /\ unregister_calls' = [unregister_calls EXCEPT ![t] = Append(@, t)]
    /\ reg_pc' = [reg_pc EXCEPT ![t] = "unregistered"]
    /\ UNCHANGED <<reg, reg_name, reg_result, register_calls>>
    /\ UNCHANGED <<sendVars, overflow_checks, drvVars, maskVars, tableVars>>

--------------------------------------------------------------------------
(* The specifications                                                      *)

SendIdle ==
    /\ send_pc = "idle"
    /\ send_iter = 0
    /\ send_data = <<>>
    /\ send_result = NotReturned
    /\ transport = [i \in 1..tries |-> 0]
    /\ alloc_failed = FALSE
    /\ out_reports = <<>>

DriverIdle ==
    /\ dev_state = [d \in Devices |-> "absent"]
    /\ host = [d \in Devices |-> FreshDevice]
    /\ cb_kind = [d \in Devices |-> "none"]
    /\ cb_pc = [d \in Devices |-> "idle"]
    /\ handles = [d \in Devices |-> 0]
    /\ controller = [d \in Devices |-> "none"]
    /\ calls = [d \in Devices |-> <<>>]
    /\ trait_calls = [d \in Devices |-> 0]
    /\ drv_ret = [d \in Devices |-> NotReturned]
    /\ cb_status = [d \in Devices |-> 0]
    /\ ev_data = [d \in Devices |-> <<>>]

MaskIdle ==
    /\ flag_seq = <<>>
    /\ flag_perm = <<>>
    /\ mask_left = Unset
    /\ mask_right = Unset
    /\ mask_perm = Unset

TableIdle ==
    /\ authored = <<>>
    /\ id_table = TableOf(<<>>)

RegIdle ==
    /\ reg = [t \in Drivers |-> NullRecord]
    /\ reg_pc = [t \in Drivers |-> "new"]
    /\ reg_name = [t \in Drivers |-> "null"]
    /\ reg_result = [t \in Drivers |-> NotReturned]
    /\ register_calls = [t \in Drivers |-> <<>>]
    /\ unregister_calls = [t \in Drivers |-> <<>>]

InitSend ==
    /\ SendIdle
    /\ overflow_checks = TRUE
    /\ RegIdle
    /\ DriverIdle
    /\ MaskIdle
    /\ TableIdle

NextSend ==
    \/ \E data \in Payloads, script \in Scripts : SendSyncCall(data, script)
    \/ \E alloc_ok \in BOOLEAN : SendSyncIteration(alloc_ok)
    \/ SendSyncLoopEnd
    \/ SendSyncDone

SpecSend == InitSend /\ [][NextSend]_vars

Init ==
    /\ SendIdle
    /\ overflow_checks \in BOOLEAN
    /\ RegIdle
    /\ DriverIdle
    /\ MaskIdle
    /\ TableIdle

Next ==
    \E d \in Devices :
        \/ HostAttach(d)
        \/ HostDetach(d)
        \/ ProbeCallbackEnter(d)
        \/ \E alloc_ok \in BOOLEAN : ProbeTryNew(d, alloc_ok)
        \/ \E ret \in HostRets : ProbeParse(d, ret)
        \/ \E ret \in HostRets : ProbeHwStart(d, ret)
        \/ \E ret \in HostRets : ProbeHwOpen(d, ret)
        \/ ProbeIoStart(d)
        \/ ProbeCallbackReturn(d)
        \/ RemoveCallbackEnter(d)
        \/ Remove(d)
        \/ RemoveCallbackReturn(d)
        \/ \E data \in Payloads : RawEventCallbackEnter(d, data)
        \/ RawEvent(d)
        \/ RawEventCallbackReturn(d)

Spec == Init /\ [][Next]_vars

\* Any flags in any order, a permutation of them, either build.
InitMask ==
    /\ SendIdle
    /\ overflow_checks \in BOOLEAN
    /\ RegIdle
    /\ DriverIdle
    /\ flag_seq \in FlagSeqs
    /\ flag_perm \in Perms(Len(flag_seq))
    /\ mask_left = Unset
    /\ mask_right = Unset
    /\ mask_perm = Unset
    /\ TableIdle

NextMask ==
    \/ ComposeLeft
    \/ ComposeRight
    \/ ComposePermuted

SpecMask == InitMask /\ [][NextMask]_vars

InitTable ==
    /\ SendIdle
    /\ overflow_checks = TRUE
    /\ RegIdle
    /\ DriverIdle
    /\ MaskIdle
    /\ TableIdle

NextTable ==
    \/ \E kind \in DeviceKind, vendor \in IdValues, product \in IdValues :
          AuthorEntry(kind, vendor, product)
    \/ UseDriverTable

SpecTable == InitTable /\ [][NextTable]_vars

\* The callbacks under a host that may pass null references.
NextFault ==
    \/ Next
    \/ \E d \in Devices : ProbeCallbackNullId(d)
    \/ \E d \in Devices, data \in Payloads : RawEventCallbackNullReport(d, data)

SpecFault == Init /\ [][NextFault]_vars

\* The callbacks under a host that also delivers reports to devices without
\* a completed probe.
NextStray ==
    \/ Next
    \/ \E d \in Devices, data \in Payloads : StrayRawEventCallbackEnter(d, data)

SpecStray == Init /\ [][NextStray]_vars

\* The Device operations in any order, on either device.
InitDevice ==
    /\ SendIdle
    /\ overflow_checks = TRUE
    /\ RegIdle
    /\ DriverIdle
    /\ MaskIdle
    /\ TableIdle

NextDevice ==
    \E d \in Devices :
        \/ \E ret \in HostRets : DeviceParse(d, ret)
        \/ \E flag \in Flags, ret \in HostRets : DeviceHwStart(d, flag, ret)
        \/ \E ret \in HostRets : DeviceHwOpen(d, ret)
        \/ DeviceIoStart(d)

SpecDevice == InitDevice /\ [][NextDevice]_vars

\* Registration and unregistration of each driver type.
InitReg ==
    /\ SendIdle
    /\ overflow_checks = TRUE
    /\ RegIdle
    /\ DriverIdle
    /\ MaskIdle
    /\ TableIdle

NextReg ==
    \E t \in Drivers :
        \/ \E name \in Names : RegisterEnter(t, name)
        \/ RegisterWriteName(t)
        \/ RegisterWriteProbe(t)
        \/ RegisterWriteRemove(t)
        \/ RegisterWriteRawEvent(t)
        \/ RegisterWriteIdTable(t)
        \/ \E ret \in HostRets : RegisterCallHost(t, ret)
        \/ Unregister(t)

SpecReg == InitReg /\ [][NextReg]_vars


--------------------------------------------------------------------------
(* Properties of hid_send_sync (SpecSend)                                  *)

\* output_report succeeds on its i-th call of this invocation.
Succeeds(i) == transport[i] >= 0

\* The first i-1 calls fail and the i-th succeeds.
FirstSuccessAt(i) == Succeeds(i) /\ \A j \in 1..(i - 1) : ~Succeeds(j)

\* C1: if output_report fails on attempts 1..i-1 and succeeds on attempt i
\* (i <= tries), hid_send_sync makes exactly i attempts and returns
\* success.  Stated for invocations in which no buffer allocation failed.
C1_SuccessOnAttemptI ==
    \A i \in 1..tries :
        (send_pc = "returned" /\ ~alloc_failed /\ FirstSuccessAt(i))
            => (attempts = i /\ send_result = Ok)

\* C2: if output_report fails on every attempt, hid_send_sync makes exactly
\* `tries` attempts and returns the error of the last one.  Stated for
\* invocations in which no buffer allocation failed.
C2_PersistentFailure ==
    (send_pc = "returned" /\ ~alloc_failed /\ \A i \in 1..tries : ~Succeeds(i))
        => (attempts = tries /\ send_result = to_result(transport[tries]))

\* hid_send_sync never makes more than `tries` output_report calls.
AttemptsWithinBound == attempts <= tries

\* C3: whatever the transport does, hid_send_sync returns a result, success
\* or an error, having made at most `tries` attempts, and never makes an
\* attempt beyond the bound.
C3_ReturnsResultWithinBound ==
    /\ attempts <= tries
    /\ send_pc = "returned" => (send_result = Ok \/ send_result.val > 0)

--------------------------------------------------------------------------
(* Properties of the callbacks and of Nintendo::probe (Spec)               *)

BringUpOrder == <<"parse", "hw_start", "hw_open", "io_start">>

\* d's callback is past the Driver trait method.
TraitReturned(d) == cb_pc[d] \in {"trait_done", "returned"}

\* All four bring-up operations of d's probe were issued and succeeded.
BringUpSucceeded(d) ==
    /\ cb_kind[d] = "probe"
    /\ Len(calls[d]) = 4
    /\ \A i \in 1..4 : calls[d][i].res.ok

\* C4: probe issues parse, hw_start (its mask including the raw-HID bit),
\* hw_open and io_start only in that order, each at most once, and each
\* only after every earlier one returned success.
C4_BringUpOrdering ==
    \A d \in Devices :
        /\ Len(calls[d]) <= Len(BringUpOrder)
        /\ \A i \in 1..Len(calls[d]) :
              /\ calls[d][i].op = BringUpOrder[i]
              /\ i < Len(calls[d]) => calls[d][i].res.ok
              /\ calls[d][i].op = "hw_start"
                    => BitSet(calls[d][i].arg, ConnectionRequest.HidRaw)

\* A probe issued all four operations, and the host recorded the raw-HID
\* mask of hw_start.
C4_Witness ==
    \E d \in Devices :
        /\ BringUpSucceeded(d)
        /\ host[d].started /\ host[d].mask = 4 /\ host[d].io_started

\* C5: when parse, hw_start, hw_open and io_start all succeed, a handshake
\* report has been sent by the time probe returns and the connection state
\* is then AwaitingHandshakeAck (or Failed), never Init.
C5_ConnectReachesHandshake ==
    \A d \in Devices :
        (BringUpSucceeded(d) /\ TraitReturned(d))
            => /\ out_reports # <<>>
               /\ controller[d] \in {"AwaitingHandshakeAck", "Failed"}

\* C6: if parse, hw_start or hw_open fails with error e, probe returns
\* exactly e, no later bring-up operation is issued, no output report is
\* sent, and nothing is tried a second time.
C6_BringUpFailureIsFatal ==
    \A d \in Devices :
        cb_kind[d] = "probe" =>
            /\ trait_calls[d] <= 1
            /\ \A i, j \in 1..Len(calls[d]) :
                  calls[d][i].op = calls[d][j].op => i = j
            /\ \A i \in 1..Len(calls[d]) :
                  ~calls[d][i].res.ok =>
                      /\ i = Len(calls[d])
                      /\ TraitReturned(d)
                      /\ drv_ret[d] = calls[d][i].res
                      /\ out_reports = <<>>
                      /\ cb_pc[d] = "returned"
                            => cb_status[d] = 0 - calls[d][i].res.val

\* hw_start failed after parse succeeded, and probe_callback has returned.
C6_Witness ==
    \E d \in Devices :
        /\ cb_kind[d] = "probe" /\ cb_pc[d] = "returned"
        /\ Len(calls[d]) = 2
        /\ calls[d][2].op = "hw_start" /\ ~calls[d][2].res.ok
        /\ drv_ret[d] = Err(19)

\* C10: probe_callback and raw_event_callback call the Driver trait method
\* exactly once and return 0 exactly when it returned Ok, and the negative
\* errno exactly when it returned an error.
C10_StatusTranslation ==
    \A d \in Devices :
        (cb_kind[d] \in {"probe", "raw_event"} /\ cb_pc[d] = "returned")
            => /\ trait_calls[d] = 1
               /\ cb_status[d] = 0 <=> drv_ret[d].ok
               /\ cb_status[d] < 0 <=> ~drv_ret[d].ok
               /\ ~drv_ret[d].ok => cb_status[d] = 0 - drv_ret[d].val

\* One probe_callback has returned a failure and one raw_event_callback
\* has returned success.
C10_Witness ==
    \E d, e \in Devices :
        /\ cb_kind[d] = "probe" /\ cb_pc[d] = "returned" /\ cb_status[d] < 0
        /\ cb_kind[e] = "raw_event" /\ cb_pc[e] = "returned" /\ cb_status[e] = 0

--------------------------------------------------------------------------
(* Properties of ConnectionMask composition (SpecMask)                     *)

\* The flags a mask stands for: the indices of its set bits.
Decode(n) == {i \in 0..31 : BitSet(n, i)}

\* The flags of fs are pairwise different.
Distinct(fs) == \A i, j \in 1..Len(fs) : fs[i] = fs[j] => i = j

\* C7: combining the masks of the same flags with `|` gives the same mask
\* in every order and every grouping: the left-nested, the right-nested
\* and the permuted combination agree.
C7_OrderIndependent ==
    /\ (mask_left # Unset /\ mask_right # Unset) => mask_left = mask_right
    /\ (mask_left # Unset /\ mask_perm # Unset) => mask_left = mask_perm

\* C8: for a non-empty set S of flags, the mask made by converting each
\* flag and OR-combining them has bit i set exactly when flag i is in S,
\* and no shift leaves the 32-bit width.
C8_RoundTrip ==
    (mask_left # Unset /\ Distinct(flag_seq))
        => /\ ~mask_left.panic
           /\ Decode(mask_left.bits) = {flag_seq[i] : i \in 1..Len(flag_seq)}

--------------------------------------------------------------------------
(* Properties of the identity table (SpecTable)                            *)

\* C9: a table written from N entries has N+1 records, ends with the
\* all-zero sentinel, holds no other record equal to the sentinel (a scan
\* to the first sentinel visits all N), and carries each entry's bus as the
\* host's bus id and its vendor and product unchanged.
C9_TableWellFormed ==
    LET N == Len(authored)
    IN  /\ Len(id_table) = N + 1
        /\ id_table[N + 1] = ZERO
        /\ \A i \in 1..N :
              /\ id_table[i] # ZERO
              /\ id_table[i].bus
                    = (IF authored[i].kind = "USB" THEN BUS_USB ELSE BUS_BLUETOOTH)
              /\ id_table[i].vendor = authored[i].vendor
              /\ id_table[i].product = authored[i].product
              /\ id_table[i].group = 0 /\ id_table[i].driver_data = 0

\* A table of two entries, one of them with vendor 0 and product 0, the
\* entry nearest to the sentinel.
C9_Witness ==
    /\ Len(authored) = 2
    /\ \E i \in 1..2 : authored[i] = HidDeviceId("USB", 0, 0)
    /\ \E i \in 1..2 : authored[i].kind = "Bluetooth" /\ authored[i].vendor = 65535

\* The driver's own table: five entries and the sentinel.
DriverTableWellFormed ==
    authored = NintendoIds => (Len(id_table) = 6 /\ id_table[6] = ZERO)

--------------------------------------------------------------------------
(* Properties of the callbacks under a host that passes null (SpecFault)   *)

\* C11: every call of probe_callback and raw_event_callback, a call with a
\* null matched-identity or report-metadata reference included, returns an
\* integer status to the host; no callback panics.
C11_NoFaultCrossesBoundary ==
    \A d \in Devices : cb_pc[d] # "panicked"

--------------------------------------------------------------------------
(* Properties of Device::io_start (SpecDevice)                             *)

\* C12: after any number n >= 1 of io_start calls on a device, io_started is
\* true and driver_input_lock has been released exactly once.
C12_IoStartIdempotent ==
    \A d \in Devices : host[d].io_started => host[d].lock = 1

--------------------------------------------------------------------------
(* Properties of reports outside a connection (SpecStray)                  *)

\* The device has no completed connect: probe has not run, or it failed.
NotConnected(d) == dev_state[d] \in {"unbound", "failed"}

\* C13: while raw_event_callback runs for a device without a completed
\* connect, no step changes the device's binding, its host record or its
\* connection state, no device operation is issued, and the status returned
\* to the host is 0.
C13_StrayReportsNotFatal ==
    [][\A d \in Devices :
          (NotConnected(d) /\ cb_kind[d] = "raw_event" /\ ~CallbackIdle(d)) =>
              /\ dev_state'[d] = dev_state[d]
              /\ host'[d] = host[d]
              /\ controller'[d] = controller[d]
              /\ calls'[d] = <<>>
              /\ (cb_pc'[d] = "returned" => cb_status'[d] = 0)]_vars

\* A report for a device whose probe failed has been answered with 0.
C13_Witness ==
    \E d \in Devices :
        /\ dev_state[d] = "failed"
        /\ cb_kind[d] = "raw_event"
        /\ cb_pc[d] = "returned"
        /\ trait_calls[d] = 1
        /\ cb_status[d] = 0

--------------------------------------------------------------------------
(* Properties of the connection state (Spec)                               *)

\* C14: a device whose connect succeeded awaits the handshake
\* acknowledgement; there is an acknowledgement signature such that once
\* raw_event has returned for a report that leads with it, the connection
\* state is Active.
C14_HandshakeAcknowledged ==
    \E sig \in Bytes :
        \A d \in Devices :
            ( /\ dev_state[d] = "bound"
              /\ cb_kind[d] = "raw_event"
              /\ cb_pc[d] = "returned"
              /\ Len(ev_data[d]) > 0
              /\ ev_data[d][1] = sig ) => controller[d] = "Active"

\* C15: every device that has completed a successful connect and has not
\* been disconnected has a live Controller instance of its own.
C15_ControllerOutlivesConnect ==
    \A d \in Devices : dev_state[d] = "bound" => controller[d] # "none"

\* C16: after remove_callback has returned for a device, the transport is
\* closed, the hardware is stopped and no Controller instance is left.
C16_DisconnectReleases ==
    \A d \in Devices :
        dev_state[d] = "removed" =>
            /\ ~host[d].opened
            /\ ~host[d].started
            /\ controller[d] = "none"

\* C17: a running callback holds exactly one Device handle for its device,
\* and no handle for a device exists while no callback runs for it.
C17_HandleWindow ==
    \A d \in Devices : handles[d] = IF CallbackIdle(d) THEN 0 ELSE 1

\* One device's callback has returned and its handle is gone while the
\* other device's callback is running with its handle.
C17_Witness ==
    \E d, e \in Devices :
        /\ d # e
        /\ cb_kind[d] = "raw_event"
        /\ cb_pc[d] = "returned"
        /\ handles[d] = 0
        /\ cb_kind[e] = "remove"
        /\ cb_pc[e] = "trait_done"
        /\ handles[e] = 1

\* C19: when probe has returned an error, the hardware it started is
\* stopped and the transport it opened is closed.
C19_FailedConnectReleases ==
    \A d \in Devices :
        dev_state[d] = "failed" => (~host[d].started /\ ~host[d].opened)

--------------------------------------------------------------------------
(* Properties of Adapter::register / unregister (SpecReg)                  *)

\* The record register has to hand to the host for driver type t.
FilledRecord(t) ==
    [name      |-> reg_name[t],
     probe     |-> Trampoline(t, "probe_callback"),
     remove    |-> Trampoline(t, "remove_callback"),
     raw_event |-> Trampoline(t, "raw_event_callback"),
     id_table  |-> IdTablePtr(t)]

RegisterReturned(t) == reg_pc[t] \in {"returned", "unregistered"}

\* C18: the host's register function is called once per register, with the
\* record's name, identity table and three trampolines already written;
\* register returns Ok exactly when the host returned 0 and the host's
\* error otherwise; unregister calls the host once, on the same record.
C18_RegistrationOutcome ==
    \A t \in Drivers :
        /\ Len(register_calls[t]) = IF RegisterReturned(t) THEN 1 ELSE 0
        /\ \A i \in 1..Len(register_calls[t]) :
              LET c == register_calls[t][i]
              IN  /\ c.reg = t
                  /\ c.record = FilledRecord(t)
                  /\ c.name = c.record.name
                  /\ reg_result[t].ok <=> (c.ret = 0)
                  /\ c.ret # 0 => reg_result[t] = Err(0 - c.ret)
        /\ unregister_calls[t] =
              IF reg_pc[t] = "unregistered" THEN <<t>> ELSE <<>>

\* One driver type is registered and unregistered again, the other was
\* rejected by the host.
C18_Witness ==
    \E t, u \in Drivers :
        /\ reg_pc[t] = "unregistered"
        /\ unregister_calls[t] = <<t>>
        /\ reg_pc[u] = "returned"
        /\ ~reg_result[u].ok

--------------------------------------------------------------------------
(* Properties of hid_send (SpecSend)                                       *)

\* C20: every hid_send makes at most one hid_hw_output_report call, with a
\* buffer equal to the caller's data; a failed allocation returns the
\* allocation error without any call; the caller's data stays as it was.
C20_SingleSendAllOrNothing ==
    /\ [](/\ \A i \in 1..Len(out_reports) : out_reports[i] = send_data
          /\ send_pc = "loop" => attempts = send_iter
          /\ send_pc = "returned" =>
                IF alloc_failed
                THEN attempts = send_iter /\ send_result = AllocError
                ELSE attempts \in {send_iter, send_iter + 1})
    /\ [][/\ send_pc = "loop" => send_data' = send_data
          /\ Len(out_reports') <= Len(out_reports) + 1]_vars

\* A first hid_send put the data on the wire, the second failed to allocate.
C20_Witness ==
    /\ send_pc = "returned"
    /\ Len(send_data) = MaxLen
    /\ alloc_failed
    /\ send_result = AllocError
    /\ out_reports = <<send_data>>

==========================================================================
